---- MODULE Spec2Model ----
(***************************************************************************)
(* Model of the Adafruit_VEML6070 driver (src/Adafruit_VEML6070.cpp).      *)
(*                                                                         *)
(* The driver owns a cached command byte and a handle to a two-wire bus    *)
(* transport.  Every public method is one action: it updates the cache and *)
(* issues a fixed sequence of transport calls.  The transport and the      *)
(* timebase are mocked: each transport call and each delay() is recorded   *)
(* in busLog together with the value the transport returned, and the       *)
(* values the transport returns are inputs of the action.                  *)
(***************************************************************************)
EXTENDS Integers, Sequences, FiniteSets, TLC

VARIABLES
    commandRegister,  \* _commandRegister.reg, the cached command byte
    i2cBegun,         \* TRUE once _i2c->begin() has been called
    call,             \* the most recent public call: [name, a, b]
    regBefore,        \* the cached byte when that call was entered
    busLog,           \* transport and timebase calls made by that call
    ret,              \* its return value (bool as 0/1, void as 0)
    prevCall,         \* the public call before it
    prevLog,          \* and the transport calls of that one
    lastSent,         \* the last command byte handed to write(), -1 if none
    lastArg,          \* the arguments last passed to begin, sleep, setInterrupt
    device            \* the sensor on the bus, when one is attached

vars == <<commandRegister, i2cBegun, call, regBefore, busLog, ret,
          prevCall, prevLog, lastSent, lastArg, device>>

----------------------------------------------------------------------------
(* Bounds of the mocked inputs *)

\* how many of the sample bytes the mock bus may deliver on a read
MaxSamples == 4

ByteSamples == <<0, 255, 1, 35, 128, 127, 170, 85>>

Bytes == {ByteSamples[i] : i \in 1..(IF MaxSamples < Len(ByteSamples)
                                      THEN MaxSamples ELSE Len(ByteSamples))}

\* byte counts requestFrom(addr, 1) can report
Counts == {0, 1}

\* endTransmission() status: 0 success, 2 address NACK
Statuses == {0, 2}

----------------------------------------------------------------------------
(* Declarations of Adafruit_VEML6070.h: bus addresses, the bit-field view  *)
(* of the command register, the integration-time enumeration.              *)

VEML6070_ADDR_ARA == 12   \* 0x0C
VEML6070_ADDR_H == 57     \* 0x39
VEML6070_ADDR_L == 56     \* 0x38

\* veml6070_integrationtime_t
IntegrationTimes == 0..3

Pow2(n) == 2^n

\* bit n of byte reg
Bit(reg, n) == (reg \div Pow2(n)) % 2

\* the width-bit field of reg whose lowest bit is lo
Field(reg, lo, width) == (reg \div Pow2(lo)) % Pow2(width)

\* assignment to a bit-field: the value is truncated to the field's width
SetField(reg, lo, width, v) ==
    reg - Field(reg, lo, width) * Pow2(lo) + (v % Pow2(width)) * Pow2(lo)

SetSD(reg, v) == SetField(reg, 0, 1, v)
SetIT(reg, v) == SetField(reg, 2, 2, v)
SetACK_THD(reg, v) == SetField(reg, 4, 1, v)
SetACK(reg, v) == SetField(reg, 5, 1, v)

\* conversion of a C++ bool argument to the integer stored in a bit
BoolToInt(b) == IF b THEN 1 ELSE 0

----------------------------------------------------------------------------
(* The mock transport's record of one call *)

Ev(op, addr, arg, r) == [op |-> op, addr |-> addr, arg |-> arg, ret |-> r]

EvBegin == Ev("begin", 0, 0, 0)
EvRequestFrom(addr, n, cnt) == Ev("requestFrom", addr, n, cnt)
EvRead(b) == Ev("read", 0, 0, b)
EvBeginTransmission(addr) == Ev("beginTransmission", addr, 0, 0)
EvWrite(b) == Ev("write", 0, b, 0)
EvEndTransmission(st) == Ev("endTransmission", 0, 0, st)
EvDelay(ms) == Ev("delay", 0, ms, 0)

NoCall == [name |-> "none", a |-> 0, b |-> 0]

----------------------------------------------------------------------------
(* Helpers of the driver *)

\* variant: clearAck() lets the bus settle for a while after the request
clearAckLog_settle(cnt) ==
    << EvBegin, EvRequestFrom(VEML6070_ADDR_ARA, 1, cnt), EvDelay(1) >>

\* clearAck(): the transport calls it makes when requestFrom reports cnt
clearAckLog(cnt) ==
    << EvBegin, EvRequestFrom(VEML6070_ADDR_ARA, 1, cnt) >>

\* variant: the result of the request is tested against the wrong value
clearAckRet_inverted(cnt) == IF cnt # 0 THEN 0 ELSE 1

\* clearAck(): bool ret = requestFrom(...)
clearAckRet(cnt) == IF cnt # 0 THEN 1 ELSE 0

\* variant: a transmission that is not acknowledged is sent a second time
writeCommand_retry(reg, st) ==
    << EvBegin,
       EvBeginTransmission(VEML6070_ADDR_L),
       EvWrite(reg),
       EvEndTransmission(st) >>
    \o (IF st # 0
        THEN << EvBeginTransmission(VEML6070_ADDR_L),
                EvWrite(reg),
                EvEndTransmission(st) >>
        ELSE <<>>)

\* writeCommand(): the transport calls it makes for cached byte reg
writeCommand(reg, st) ==
    << EvBegin,
       EvBeginTransmission(VEML6070_ADDR_L),
       EvWrite(reg),
       EvEndTransmission(st) >>

\* waitForNext(): first loop, itCount *= 2 repeated i times on a uint8_t
RECURSIVE itCountLoop(_, _)
itCountLoop(i, itCount) ==
    IF i > 0 THEN itCountLoop(i - 1, (itCount * 2) % 256) ELSE itCount

\* waitForNext(): second loop, one delay(63) per iteration
RECURSIVE delayLoop(_, _)
delayLoop(i, itCount) ==
    IF i < itCount THEN <<EvDelay(63)>> \o delayLoop(i + 1, itCount) ELSE <<>>

\* variant: the integration-time code is used as the multiple itself
waitForNext_linear(reg) == delayLoop(0, Field(reg, 2, 2) + 1)

waitForNext(reg) == delayLoop(0, itCountLoop(Field(reg, 2, 2), 1))

\* bitwise OR of two non-negative integers
RECURSIVE BitOr(_, _)
BitOr(x, y) ==
    IF x = 0 THEN y
    ELSE IF y = 0 THEN x
    ELSE (IF x % 2 = 1 \/ y % 2 = 1 THEN 1 ELSE 0)
         + 2 * BitOr(x \div 2, y \div 2)

\* conversion to uint16_t
U16(x) == x % 65536

\* readUV(): the transport calls it makes, given what the transport reports
readUVLog(reg, hCnt, hi, lCnt, lo) ==
    waitForNext(reg)
    \o << EvRequestFrom(VEML6070_ADDR_H, 1, hCnt) >>
    \o (IF hCnt # 1 THEN <<>>
        ELSE << EvRead(hi), EvRequestFrom(VEML6070_ADDR_L, 1, lCnt) >>
             \o (IF lCnt # 1 THEN <<>> ELSE << EvRead(lo) >>))

\* variant: the high byte is not shifted before the low byte is merged
readUVRet_noShift(hCnt, hi, lCnt, lo) ==
    IF hCnt # 1 THEN U16(-1)
    ELSE IF lCnt # 1 THEN U16(-1)
    ELSE U16(BitOr(U16(hi), lo))

\* variant: the count of the low-byte request is not tested
readUVRet_lowUnchecked(hCnt, hi, lCnt, lo) ==
    IF hCnt # 1 THEN U16(-1)
    ELSE U16(BitOr(U16(U16(hi) * 256), lo))

\* variant: a short read returns 0 instead of -1
readUVRet_zeroOnError(hCnt, hi, lCnt, lo) ==
    IF hCnt # 1 THEN U16(0)
    ELSE IF lCnt # 1 THEN U16(0)
    ELSE U16(BitOr(U16(U16(hi) * 256), lo))

\* readUV(): the value it returns
readUVRet(hCnt, hi, lCnt, lo) ==
    IF hCnt # 1 THEN U16(-1)
    ELSE IF lCnt # 1 THEN U16(-1)
    ELSE U16(BitOr(U16(U16(hi) * 256), lo))

\* does a call's log contain a transport begin()
HasBegin(log) == \E i \in 1..Len(log) : log[i].op = "begin"

\* the last byte handed to write() in log, or dflt if there is none
RECURSIVE LastWrite(_, _)
LastWrite(log, dflt) ==
    IF log = <<>> THEN dflt
    ELSE LastWrite(Tail(log),
                   IF Head(log).op = "write" THEN Head(log).arg ELSE dflt)

\* nothing has been passed yet: the values the constructor's 0x02 stands for
NoArgs == [itime |-> 0, sd |-> 0, ack |-> 0, thd |-> 0]

\* the arguments last passed, after the call name(a, b)
ArgsAfter(args, name, a, b) ==
    CASE name = "begin" -> [args EXCEPT !.itime = a]
      [] name = "sleep" -> [args EXCEPT !.sd = a]
      [] name = "setInterrupt" -> [args EXCEPT !.ack = a, !.thd = b]
      [] OTHER -> args

----------------------------------------------------------------------------
(* The sensor.  Once its alert has fired it answers at the alert-response  *)
(* address only, until that address is read; otherwise it answers at the   *)
(* command and data addresses and not at the alert-response address.       *)

\* no sensor: the transport's replies are scripted by the mock
NoDevice ==
    [attached |-> FALSE, latched |-> FALSE, reg |-> 2, written |-> FALSE,
     addr |-> 0, pending |-> 2, ok |-> TRUE]

\* a sensor after power-on: alert not latched, no command accepted yet
PowerOnDevice == [NoDevice EXCEPT !.attached = TRUE]

\* the sensor d after one transport call e; ok is cleared if the reply
\* recorded in e is not the one the sensor gives
DeviceStep(d, e) ==
    CASE e.op = "requestFrom" /\ e.addr = VEML6070_ADDR_ARA ->
           [d EXCEPT !.latched = FALSE,
                     !.ok = d.ok /\ e.ret = (IF d.latched THEN 1 ELSE 0)]
      [] e.op = "requestFrom" /\ e.addr # VEML6070_ADDR_ARA ->
           [d EXCEPT !.ok = d.ok /\ e.ret = (IF d.latched THEN 0 ELSE e.arg)]
      [] e.op = "beginTransmission" ->
           [d EXCEPT !.addr = e.addr]
      [] e.op = "write" ->
           [d EXCEPT !.pending = e.arg]
      [] e.op = "endTransmission" ->
           IF ~d.latched /\ d.addr = VEML6070_ADDR_L
           THEN [d EXCEPT !.reg = d.pending, !.written = TRUE,
                          !.ok = d.ok /\ e.ret = 0]
           ELSE [d EXCEPT !.ok = d.ok /\ e.ret = 2]
      [] OTHER -> d

\* the sensor d after the transport calls of log, in order
RECURSIVE DeviceRun(_, _)
DeviceRun(d, log) ==
    IF log = <<>> THEN d ELSE DeviceRun(DeviceStep(d, Head(log)), Tail(log))

\* the transport calls of log reach the sensor, if one is attached
Wired(log) ==
    IF device.attached
    THEN /\ DeviceRun(device, log).ok
         /\ device' = DeviceRun(device, log)
    ELSE UNCHANGED device

\* the measured UV count crosses the threshold while the alert is enabled
thresholdCrossed ==
    /\ device.attached
    /\ ~device.latched
    /\ Bit(device.reg, 5) = 1
    /\ device' = [device EXCEPT !.latched = TRUE]
    /\ UNCHANGED <<commandRegister, i2cBegun, call, regBefore, busLog, ret,
                   prevCall, prevLog, lastSent, lastArg>>

----------------------------------------------------------------------------
(* State after construction *)

\* variant: the constructor leaves the reserved bit clear
Init_zero ==
    /\ commandRegister = 0
    /\ i2cBegun = FALSE
    /\ call = NoCall
    /\ regBefore = 0
    /\ busLog = <<>>
    /\ ret = 0
    /\ prevCall = NoCall
    /\ prevLog = <<>>
    /\ lastSent = -1
    /\ lastArg = NoArgs
    /\ device = NoDevice

\* variant: the constructor already initialises the transport
Init_busBegin ==
    /\ commandRegister = 2
    /\ i2cBegun = TRUE
    /\ call = NoCall
    /\ regBefore = 2
    /\ busLog = << EvBegin >>
    /\ ret = 0
    /\ prevCall = NoCall
    /\ prevLog = <<>>
    /\ lastSent = -1
    /\ lastArg = NoArgs
    /\ device = NoDevice

Init ==
    /\ commandRegister = 2
    /\ i2cBegun = FALSE
    /\ call = NoCall
    /\ regBefore = 2
    /\ busLog = <<>>
    /\ ret = 0
    /\ prevCall = NoCall
    /\ prevLog = <<>>
    /\ lastSent = -1
    /\ lastArg = NoArgs
    /\ device = NoDevice

\* construction of a driver whose transport is wired to a sensor
InitDevice ==
    /\ commandRegister = 2
    /\ i2cBegun = FALSE
    /\ call = NoCall
    /\ regBefore = 2
    /\ busLog = <<>>
    /\ ret = 0
    /\ prevCall = NoCall
    /\ prevLog = <<>>
    /\ lastSent = -1
    /\ lastArg = NoArgs
    /\ device = PowerOnDevice

\* bookkeeping common to every public call
Enter(name, a, b, log, r) ==
    /\ call' = [name |-> name, a |-> a, b |-> b]
    /\ regBefore' = commandRegister
    /\ busLog' = log
    /\ ret' = r
    /\ prevCall' = call
    /\ prevLog' = busLog
    /\ i2cBegun' = (i2cBegun \/ HasBegin(log))
    /\ lastSent' = LastWrite(log, lastSent)
    /\ lastArg' = ArgsAfter(lastArg, name, a, b)
    /\ Wired(log)

----------------------------------------------------------------------------
(* Public methods *)

\* variant: begin() writes the command without clearing the alert first
begin_noClearAck(itime, araCnt, st) ==
    LET reg == SetIT(commandRegister, itime) IN
    /\ commandRegister' = reg
    /\ Enter("begin", itime, 0, writeCommand(reg, st), 0)

\* variant: begin() ORs the code into the IT field instead of assigning it
begin_orIT(itime, araCnt, st) ==
    LET reg == BitOr(commandRegister, (itime % 4) * 4) IN
    /\ commandRegister' = reg
    /\ Enter("begin", itime, 0,
             clearAckLog(araCnt) \o writeCommand(reg, st), 0)

\* variant: begin() waits one integration period after configuring
begin_waits(itime, araCnt, st) ==
    LET reg == SetIT(commandRegister, itime) IN
    /\ commandRegister' = reg
    /\ Enter("begin", itime, 0,
             clearAckLog(araCnt) \o writeCommand(reg, st) \o waitForNext(reg),
             0)

\* variant: begin() builds the command byte from the default, not the cache
begin_rebuild(itime, araCnt, st) ==
    LET reg == SetIT(2, itime) IN
    /\ commandRegister' = reg
    /\ Enter("begin", itime, 0,
             clearAckLog(araCnt) \o writeCommand(reg, st), 0)

begin(itime, araCnt, st) ==
    LET reg == SetIT(commandRegister, itime) IN
    /\ commandRegister' = reg
    /\ Enter("begin", itime, 0,
             clearAckLog(araCnt) \o writeCommand(reg, st), 0)

\* variant: setInterrupt() stores its two arguments in each other's bit
setInterrupt_swapped(state, level, araCnt, st) ==
    LET reg == SetACK_THD(SetACK(commandRegister, BoolToInt(level)),
                          BoolToInt(state)) IN
    /\ commandRegister' = reg
    /\ Enter("setInterrupt", BoolToInt(state), BoolToInt(level),
             clearAckLog(araCnt) \o writeCommand(reg, st), 0)

\* variant: setInterrupt() builds the command byte from the default
setInterrupt_rebuild(state, level, araCnt, st) ==
    LET reg == SetACK_THD(SetACK(2, BoolToInt(state)), BoolToInt(level)) IN
    /\ commandRegister' = reg
    /\ Enter("setInterrupt", BoolToInt(state), BoolToInt(level),
             clearAckLog(araCnt) \o writeCommand(reg, st), 0)

setInterrupt(state, level, araCnt, st) ==
    LET reg == SetACK_THD(SetACK(commandRegister, BoolToInt(state)),
                          BoolToInt(level)) IN
    /\ commandRegister' = reg
    /\ Enter("setInterrupt", BoolToInt(state), BoolToInt(level),
             clearAckLog(araCnt) \o writeCommand(reg, st), 0)

clearAck(araCnt) ==
    /\ UNCHANGED commandRegister
    /\ Enter("clearAck", 0, 0, clearAckLog(araCnt), clearAckRet(araCnt))

readUV(hCnt, hi, lCnt, lo) ==
    /\ UNCHANGED commandRegister
    /\ Enter("readUV", 0, 0,
             readUVLog(commandRegister, hCnt, hi, lCnt, lo),
             readUVRet(hCnt, hi, lCnt, lo))

\* variant: sleep() clears the alert before writing, as begin() does
sleep_withClearAck(state, st) ==
    LET reg == SetSD(commandRegister, BoolToInt(state)) IN
    /\ commandRegister' = reg
    /\ Enter("sleep", BoolToInt(state), 0,
             clearAckLog(0) \o writeCommand(reg, st), 0)

\* variant: sleep() toggles the SD bit by its argument instead of setting it
sleep_toggle(state, st) ==
    LET reg == SetSD(commandRegister,
                     Bit(commandRegister, 0) + BoolToInt(state)) IN
    /\ commandRegister' = reg
    /\ Enter("sleep", BoolToInt(state), 0, writeCommand(reg, st), 0)

\* variant: sleep() transmits the cached byte before it updates the SD bit
sleep_writesStale(state, st) ==
    LET reg == SetSD(commandRegister, BoolToInt(state)) IN
    /\ commandRegister' = reg
    /\ Enter("sleep", BoolToInt(state), 0,
             writeCommand(commandRegister, st), 0)

sleep(state, st) ==
    LET reg == SetSD(commandRegister, BoolToInt(state)) IN
    /\ commandRegister' = reg
    /\ Enter("sleep", BoolToInt(state), 0, writeCommand(reg, st), 0)

Next ==
    \/ \E itime \in IntegrationTimes, araCnt \in Counts, st \in Statuses :
          begin(itime, araCnt, st)
    \/ \E state \in BOOLEAN, level \in BOOLEAN,
          araCnt \in Counts, st \in Statuses :
          setInterrupt(state, level, araCnt, st)
    \/ \E araCnt \in Counts : clearAck(araCnt)
    \* readUV: the high-byte request comes back short (nothing else is read)
    \/ \E hCnt \in Counts \ {1} : readUV(hCnt, 0, 0, 0)
    \* readUV: the low-byte request comes back short
    \/ \E hi \in Bytes, lCnt \in Counts \ {1} : readUV(1, hi, lCnt, 0)
    \* readUV: both bytes are received
    \/ \E hi \in Bytes, lo \in Bytes : readUV(1, hi, 1, lo)
    \/ \E state \in BOOLEAN, st \in Statuses : sleep(state, st)

Spec == Init /\ [][Next]_vars

\* the driver on a transport wired to a sensor, whose alert may fire
\* between two calls
NextDevice ==
    \/ Next
    \/ thresholdCrossed

SpecDevice == InitDevice /\ [][NextDevice]_vars

----------------------------------------------------------------------------
(* The bus as a recording mock sees it: the transactions of a call's log   *)

RTx(addr, n) == [dir |-> "R", addr |-> addr, n |-> n, data |-> <<>>]
WTx(addr, data) == [dir |-> "W", addr |-> addr, n |-> Len(data), data |-> data]

\* the bytes written from position i of log up to the end of the transmission
RECURSIVE WrittenFrom(_, _)
WrittenFrom(log, i) ==
    IF i > Len(log) \/ log[i].op # "write" THEN <<>>
    ELSE <<log[i].arg>> \o WrittenFrom(log, i + 1)

\* the read requests and write transactions of log, from position i on
RECURSIVE TransactionsFrom(_, _)
TransactionsFrom(log, i) ==
    IF i > Len(log) THEN <<>>
    ELSE (CASE log[i].op = "requestFrom" ->
                 << RTx(log[i].addr, log[i].arg) >>
            [] log[i].op = "beginTransmission" ->
                 << WTx(log[i].addr, WrittenFrom(log, i + 1)) >>
            [] OTHER -> <<>>)
         \o TransactionsFrom(log, i + 1)

Transactions(log) == TransactionsFrom(log, 1)

\* positions of the calls of one transport operation in log
Positions(log, op) == {i \in 1..Len(log) : log[i].op = op}

\* positions of the read requests to one address
RequestsTo(log, addr) ==
    {i \in Positions(log, "requestFrom") : log[i].addr = addr}

\* every byte handed to write() in log, in order
RECURSIVE Written(_)
Written(log) ==
    IF log = <<>> THEN <<>>
    ELSE (IF Head(log).op = "write" THEN <<Head(log).arg>> ELSE <<>>)
         \o Written(Tail(log))

\* every byte read() delivered in log, in order
RECURSIVE Received(_)
Received(log) ==
    IF log = <<>> THEN <<>>
    ELSE (IF Head(log).op = "read" THEN <<Head(log).ret>> ELSE <<>>)
         \o Received(Tail(log))

\* total time the timebase was blocked in log
RECURSIVE Delayed(_)
Delayed(log) ==
    IF log = <<>> THEN 0
    ELSE (IF Head(log).op = "delay" THEN Head(log).arg ELSE 0)
         + Delayed(Tail(log))

\* the call was made on a freshly constructed driver
Fresh == prevCall.name = "none" /\ call.name # "none"

----------------------------------------------------------------------------
(* C1: begin(code) and set_interrupt(enable, level), called in any state,  *)
(* each put exactly two transactions on the bus, in this order: a 1-byte   *)
(* read request to 0x0C, then a single-byte write to 0x38; nothing else.   *)
C1_ClearBeforeWrite ==
    call.name \in {"begin", "setInterrupt"} =>
        LET tx == Transactions(busLog) IN
        /\ Len(tx) = 2
        /\ tx[1] = RTx(12, 1)
        /\ tx[2].dir = "W" /\ tx[2].addr = 56 /\ tx[2].n = 1

C1_Witness ==
    /\ call.name = "setInterrupt" /\ prevCall.name = "begin"
    /\ regBefore # 2
    /\ Len(Transactions(busLog)) = 2 /\ Len(Transactions(prevLog)) = 2

(* C2: when both read requests return 1 byte, read_uv issues exactly one   *)
(* 1-byte read request to 0x39 and then exactly one to 0x38, no write, and *)
(* returns (hi << 8) | lo = hi * 256 + lo for the bytes hi, lo received.   *)
C2_UVReadAssembly ==
    (/\ call.name = "readUV"
     /\ \A i \in Positions(busLog, "requestFrom") : busLog[i].ret = 1) =>
        /\ Transactions(busLog) = << RTx(57, 1), RTx(56, 1) >>
        /\ Len(Received(busLog)) = 2
        /\ ret = Received(busLog)[1] * 256 + Received(busLog)[2]

C2_Witness ==
    /\ call.name = "readUV"
    /\ Received(busLog) = <<1, 35>>
    /\ ret = 291

(* C3: in every reachable state bit 1 of the cached command byte is 1, and *)
(* every command byte transmitted by any public call has bit 1 set.        *)
C3_ReservedBit ==
    /\ Bit(commandRegister, 1) = 1
    /\ \A i \in 1..Len(Written(busLog)) : Bit(Written(busLog)[i], 1) = 1

C3_Witness ==
    /\ call.name = "sleep" /\ prevCall.name = "setInterrupt"
    /\ Field(commandRegister, 2, 2) = 3
    /\ Written(busLog) = << 63 >>

(* C4: from any reachable state, begin(code) transmits one command byte    *)
(* whose bits 2-3 equal code; on a fresh driver begin(1) transmits 0x06.   *)
C4_IntegrationTimeRoundTrip ==
    call.name = "begin" =>
        /\ Len(Written(busLog)) = 1
        /\ (Written(busLog)[1] \div 4) % 4 = call.a
        /\ (Fresh /\ call.a = 1) => Written(busLog) = << 6 >>

C4_Witness ==
    /\ call.name = "begin" /\ call.a = 1
    /\ (regBefore \div 4) % 4 = 3
    /\ (regBefore \div 32) % 2 = 1
    /\ Len(Written(busLog)) = 1

(* C5: after set_interrupt(enable, level), called in any reachable state,  *)
(* the transmitted command byte has bit 5 = enable and bit 4 = level, and  *)
(* bits 0-3 (SD, reserved, IT) as in the cached byte before the call; on a *)
(* fresh driver set_interrupt(true, true) transmits 0x32.                  *)
C5_AlertEnableRoundTrip ==
    call.name = "setInterrupt" =>
        LET w == Written(busLog) IN
        /\ Len(w) = 1
        /\ (w[1] \div 32) % 2 = call.a
        /\ (w[1] \div 16) % 2 = call.b
        /\ w[1] % 16 = regBefore % 16
        /\ (Fresh /\ call.a = 1 /\ call.b = 1) => w[1] = 50

C5_Witness ==
    /\ call.name = "setInterrupt" /\ call.a = 1 /\ call.b = 0
    /\ regBefore % 16 = 11
    /\ (regBefore \div 16) % 4 = 1
    /\ Len(Written(busLog)) = 1

(* C6: every read_uv blocks the timebase for exactly 63 * 2^IT ms in       *)
(* total, IT being bits 2-3 of the cached byte at the call (63, 126, 252   *)
(* or 504 ms, never more than 504), and the whole wait is over before the  *)
(* first read request to 0x39 is issued.                                   *)
C6_IntegrationPeriodWait ==
    call.name = "readUV" =>
        LET it == (regBefore \div 4) % 4 IN
        /\ Delayed(busLog) = 63 * (2 ^ it)
        /\ Delayed(busLog) \in {63, 126, 252, 504}
        /\ Delayed(busLog) <= 504
        /\ RequestsTo(busLog, 57) # {}
        /\ \A d \in Positions(busLog, "delay") :
              \A r \in Positions(busLog, "requestFrom") : d < r

C6_Witness ==
    /\ call.name = "readUV"
    /\ (regBefore \div 4) % 4 = 3
    /\ Delayed(busLog) = 504

(* C7: if the read request to 0x39 returns fewer than 1 byte, read_uv      *)
(* returns the read-error sentinel 0xFFFF and issues no read request to    *)
(* 0x38; if that request succeeds and the request to 0x38 returns fewer    *)
(* than 1 byte, read_uv returns the sentinel too; no request is repeated.  *)
C7_ShortReadFails ==
    call.name = "readUV" =>
        LET hiReq == RequestsTo(busLog, 57)
            loReq == RequestsTo(busLog, 56) IN
        /\ (\E i \in hiReq : busLog[i].ret < 1) =>
              /\ ret = 65535
              /\ loReq = {}
              /\ Cardinality(hiReq) = 1
        /\ ((\A i \in hiReq : busLog[i].ret = 1)
            /\ (\E j \in loReq : busLog[j].ret < 1)) =>
              /\ ret = 65535
              /\ Cardinality(hiReq) = 1
              /\ Cardinality(loReq) = 1

C7_Witness ==
    /\ call.name = "readUV" /\ prevCall.name = "readUV"
    /\ \E i \in RequestsTo(prevLog, 57) : prevLog[i].ret = 0
    /\ \E j \in RequestsTo(busLog, 56) : busLog[j].ret = 0
    /\ Received(busLog) = << 1 >>

(* C8: in any reachable state sleep(enable) puts exactly one transaction   *)
(* on the bus, a single-byte write to 0x38 of the cached byte with bit 0   *)
(* equal to enable, and no read from 0x0C; on a fresh driver sleep(true)   *)
(* yields the log W@0x38[0x03].                                            *)
C8_SleepNoAlertClear ==
    call.name = "sleep" =>
        /\ Transactions(busLog)
              = << WTx(56, << regBefore - (regBefore % 2) + call.a >>) >>
        /\ Transactions(busLog)[1].data = << commandRegister >>
        /\ RequestsTo(busLog, 12) = {}
        /\ (Fresh /\ call.a = 1) => Transactions(busLog) = << WTx(56, <<3>>) >>

C8_Witness ==
    /\ call.name = "sleep" /\ call.a = 1
    /\ prevCall.name = "setInterrupt" /\ prevCall.a = 1
    /\ Transactions(busLog) = << WTx(56, << 35 >>) >>

(* C9: from any reachable state, sleep(true) followed by sleep(true)       *)
(* produces two identical writes to 0x38, both with bit 0 set;             *)
(* sleep(false) after sleep(true) produces a write equal to the previously *)
(* cached byte with only bit 0 cleared.                                    *)
C9_SleepIdempotence ==
    (call.name = "sleep" /\ prevCall.name = "sleep" /\ prevCall.a = 1) =>
        LET now == Transactions(busLog)
            before == Transactions(prevLog) IN
        /\ Len(now) = 1 /\ Len(before) = 1
        /\ now[1].dir = "W" /\ now[1].addr = 56 /\ now[1].n = 1
        /\ before[1].data[1] % 2 = 1
        /\ regBefore = before[1].data[1]
        /\ call.a = 1 => now = before
        /\ call.a = 0 => now[1].data[1] = regBefore - 1

C9_Witness ==
    /\ call.name = "sleep" /\ call.a = 0
    /\ prevCall.name = "sleep" /\ prevCall.a = 1
    /\ regBefore = 47
    /\ Written(busLog) = << 46 >>

(* C10: clear_ack issues exactly one 1-byte read request to 0x0C and       *)
(* nothing else on the bus, leaves the cached command byte unchanged, and  *)
(* returns true exactly when that request received a byte, false when it   *)
(* received none.                                                          *)
C10_ClearAck ==
    call.name = "clearAck" =>
        /\ Transactions(busLog) = << RTx(12, 1) >>
        /\ Received(busLog) = <<>>
        /\ commandRegister = regBefore
        /\ \A i \in RequestsTo(busLog, 12) :
              /\ busLog[i].ret >= 1 => ret = 1
              /\ busLog[i].ret = 0 => ret = 0

C10_Witness ==
    /\ call.name = "clearAck" /\ ret = 1
    /\ prevCall.name = "clearAck"
    /\ \E i \in RequestsTo(prevLog, 12) : prevLog[i].ret = 0
    /\ commandRegister # 2

(* C11: after construction and before any public call the bus log is     *)
(* empty (no transport call of any kind, no delay) and the cached command  *)
(* byte is 0x02.                                                           *)
C11_DefaultCommandByte ==
    call.name = "none" =>
        /\ busLog = <<>>
        /\ ~i2cBegun
        /\ lastSent = -1
        /\ commandRegister = 2

C11_Witness ==
    /\ call.name = "none" /\ prevCall.name = "none"
    /\ commandRegister = 2
    /\ busLog = <<>>

(* C12: in any call sequence, including one whose first call is read_uv,   *)
(* no read request or write transaction reaches a transport on which       *)
(* begin() has not been called: the call has called begin() before it, or  *)
(* an earlier call has.                                                    *)
C12_TransportBegunFirst ==
    \A i \in Positions(busLog, "requestFrom")
             \cup Positions(busLog, "beginTransmission") :
        \/ \E j \in Positions(busLog, "begin") : j < i
        \/ Positions(busLog, "begin") = {} /\ i2cBegun

(* C13: in every reachable state, including states reached through calls   *)
(* whose command write the device did not acknowledge, the cached command  *)
(* byte equals the last value successfully written to the device, or 0x02  *)
(* if no write has succeeded yet.                                          *)
C13_CacheMirrorsDevice ==
    device.attached =>
        commandRegister = (IF device.written THEN device.reg ELSE 2)

(* C13, amended: the cached command byte equals the last value transmitted *)
(* in a command write, acknowledged by the device or not, or 0x02 if no    *)
(* command write has been issued yet.                                      *)
C13_CacheIsLastSent ==
    commandRegister = (IF lastSent = -1 THEN 2 ELSE lastSent)

C13_Witness ==
    /\ device.attached /\ device.written
    /\ call.name = "sleep"
    /\ \E i \in Positions(busLog, "endTransmission") : busLog[i].ret # 0
    /\ device.reg # commandRegister
    /\ lastSent = commandRegister

(* C14: on a freshly constructed driver begin(code=1) yields the bus log   *)
(* R@0x0C(1), W@0x38[0x06] and a timebase delay of 126 ms; in general      *)
(* begin(code) delays 63 * 2^code ms.                                      *)
C14_ScenarioS1 ==
    call.name = "begin" =>
        /\ Delayed(busLog) = 63 * (2 ^ call.a)
        /\ (Fresh /\ call.a = 1) =>
              /\ Transactions(busLog) = << RTx(12, 1), WTx(56, <<6>>) >>
              /\ Delayed(busLog) = 126

(* C14, amended: on a freshly constructed driver begin(code=1) yields the  *)
(* bus log R@0x0C(1), W@0x38[0x06] and no timebase delay; begin(code)      *)
(* never delays, and the 63 * 2^code ms are waited by a read_uv that       *)
(* follows it.                                                             *)
C14_ScenarioS1NoDelay ==
    /\ call.name = "begin" =>
          /\ Delayed(busLog) = 0
          /\ (Fresh /\ call.a = 1) =>
                Transactions(busLog) = << RTx(12, 1), WTx(56, <<6>>) >>
    /\ (call.name = "readUV" /\ prevCall.name = "begin") =>
          Delayed(busLog) = 63 * (2 ^ prevCall.a)

C14_Witness ==
    /\ Fresh /\ call.name = "begin" /\ call.a = 1
    /\ Written(busLog) = << 6 >>
    /\ Delayed(busLog) = 0

(* C15: if the device is alert-latched when begin or set_interrupt is      *)
(* called and no threshold crossing occurs during the call, the read from  *)
(* 0x0C inside the call clears the latch before the command write, so the  *)
(* write to 0x38 is accepted and the device's command register equals the  *)
(* cached byte when the call returns; the same holds when the device was   *)
(* not latched on entry.                                                   *)
C15_UnlatchBeforeWrite ==
    (device.attached /\ call.name \in {"begin", "setInterrupt"}) =>
        /\ \A i \in Positions(busLog, "endTransmission") : busLog[i].ret = 0
        /\ \A i \in Positions(busLog, "beginTransmission") :
              \E j \in RequestsTo(busLog, 12) : j < i
        /\ device.written
        /\ device.reg = commandRegister

C15_Witness ==
    /\ device.attached
    /\ call.name = "begin" /\ prevCall.name = "sleep"
    /\ \E i \in Positions(prevLog, "endTransmission") : prevLog[i].ret # 0
    /\ \E j \in RequestsTo(busLog, 12) : busLog[j].ret = 1
    /\ device.reg = commandRegister

(* C16: in every reachable state bits 2-3 of the cached command byte equal *)
(* the code passed to the most recent begin (0 if begin was never called); *)
(* set_interrupt, sleep, clear_ack and read_uv never change them, whatever *)
(* the bus outcomes.                                                       *)
C16_IntegrationTimeStable ==
    /\ (commandRegister \div 4) % 4 = lastArg.itime
    /\ call.name \in {"setInterrupt", "sleep", "clearAck", "readUV"} =>
          (commandRegister \div 4) % 4 = (regBefore \div 4) % 4

C16_Witness ==
    /\ call.name = "setInterrupt" /\ prevCall.name = "sleep"
    /\ lastArg.itime = 2
    /\ (commandRegister \div 4) % 4 = 2
    /\ \E i \in Positions(busLog, "endTransmission") : busLog[i].ret # 0

(* C17: begin(code) leaves bits 0 (SD), 4 (THD) and 5 (ACK) of the cached  *)
(* byte as they were, so the byte it transmits has SD = 1 exactly when a   *)
(* preceding sleep(true) has not been undone by sleep(false), and carries  *)
(* the ACK and THD bits of the most recent set_interrupt.                  *)
C17_BeginChangesOnlyIT ==
    call.name = "begin" =>
        LET w == Written(busLog) IN
        /\ Len(w) = 1
        /\ commandRegister % 4 = regBefore % 4
        /\ commandRegister \div 16 = regBefore \div 16
        /\ w[1] % 2 = lastArg.sd
        /\ (w[1] \div 16) % 2 = lastArg.thd
        /\ (w[1] \div 32) % 2 = lastArg.ack

C17_Witness ==
    /\ call.name = "begin" /\ call.a = 2
    /\ lastArg.sd = 1 /\ lastArg.ack = 1 /\ lastArg.thd = 0
    /\ regBefore = 35
    /\ Written(busLog) = << 43 >>

(* C18: when the command write of begin, set_interrupt or sleep is not     *)
(* acknowledged, the call still issues exactly one write transaction, the  *)
(* cached byte keeps the updated value, and the same operation called      *)
(* again with the same arguments transmits the same full byte.             *)
C18_NoRetryCacheAuthoritative ==
    /\ (/\ call.name \in {"begin", "setInterrupt", "sleep"}
        /\ \E i \in Positions(busLog, "endTransmission") : busLog[i].ret # 0)
       =>
          /\ Cardinality(Positions(busLog, "beginTransmission")) = 1
          /\ Cardinality(Positions(busLog, "endTransmission")) = 1
          /\ Written(busLog) = << commandRegister >>
          /\ call.name = "begin" => (commandRegister \div 4) % 4 = call.a
          /\ call.name = "sleep" => commandRegister % 2 = call.a
          /\ call.name = "setInterrupt" =>
                (commandRegister \div 16) % 4 = 2 * call.a + call.b
    /\ (/\ call.name \in {"begin", "setInterrupt", "sleep"}
        /\ prevCall = call
        /\ \E i \in Positions(prevLog, "endTransmission") : prevLog[i].ret # 0)
       =>
          Written(busLog) = Written(prevLog)

C18_Witness ==
    /\ call.name = "setInterrupt" /\ call.a = 1 /\ call.b = 0
    /\ prevCall = call
    /\ \E i \in Positions(prevLog, "endTransmission") : prevLog[i].ret # 0
    /\ \E i \in Positions(busLog, "endTransmission") : busLog[i].ret # 0
    /\ Written(busLog) = << 47 >>

(* C19: begin, set_interrupt, clear_ack and sleep never invoke the         *)
(* timebase delay, in any state and for any arguments; the only delay      *)
(* calls in any call sequence are those made inside read_uv.               *)
C19_OnlyReadUVWaits ==
    /\ call.name # "readUV" => Positions(busLog, "delay") = {}
    /\ prevCall.name # "readUV" => Positions(prevLog, "delay") = {}

C19_Witness ==
    /\ call.name = "clearAck" /\ prevCall.name = "readUV"
    /\ Positions(prevLog, "delay") # {}
    /\ Positions(busLog, "delay") = {}
    /\ (commandRegister \div 4) % 4 = 3

(* C20: the value read_uv returns on a short read is -1 truncated to 16    *)
(* bits, 0xFFFF, which is also what it returns for a successful read of    *)
(* hi = 0xFF, lo = 0xFF; every other returned value implies that both read *)
(* requests succeeded.                                                     *)
C20_SentinelCollision ==
    call.name = "readUV" =>
        LET req == Positions(busLog, "requestFrom") IN
        /\ (\E i \in req : busLog[i].ret # 1) => ret = 65535
        /\ Received(busLog) = << 255, 255 >> => ret = 65535
        /\ ret # 65535 =>
              /\ Cardinality(req) = 2
              /\ \A i \in req : busLog[i].ret = 1

\* the same value 0xFFFF after a read that succeeded and one that failed
C20_Witness ==
    /\ call.name = "readUV" /\ prevCall.name = "readUV"
    /\ ret = 65535
    /\ Received(busLog) = << 255, 255 >>
    /\ \A i \in Positions(busLog, "requestFrom") : busLog[i].ret = 1
    /\ \E i \in Positions(prevLog, "requestFrom") : prevLog[i].ret = 0

====
